---- MODULE Spec2Model ----
(***************************************************************************)
(* PRarena: the scripts that collect, backfill and reconcile data.csv.     *)
(*                                                                         *)
(*   src/add_nondraft_final.py          sampled backfill with linear       *)
(*                                      interpolation (main, the sampler,  *)
(*                                      get_nondraft_counts_at_time,       *)
(*                                      interpolate_linear)                *)
(*   src/scripts/add_nondraft_final.py  enforce_constraints, and main: the  *)
(*                                      backfill that queries every row    *)
(*   src/collect_data.py                collect_data: the 15 metrics and   *)
(*                                      the appended row                   *)
(*   src/scripts/reconcile_codegen_merged.py                               *)
(*                                      main and get_merged_count          *)
(*                                                                         *)
(* Python indices are 0-based and are kept 0-based here; a Python list is  *)
(* a TLA+ sequence whose element idx is at position idx + 1.  A dict is a  *)
(* function whose DOMAIN is the set of keys present.                       *)
(***************************************************************************)
EXTENDS Integers, Sequences, FiniteSets

(***************************************************************************)
(* Bounds of the model.                                                    *)
(***************************************************************************)
\* a backfill run is given every table of 0 .. MaxRows rows (and those of
\* TableSizes)
MaxRows == 3
\* largest table given to the sampler alone
MaxSampleRows == 45
\* most responses other than 200 that the API gives in one run
MaxFaults == 3
\* values and times given to interpolate_linear: 0 .. MaxInterpVal, 0 .. MaxInterpTime
MaxInterpVal == 3
MaxInterpTime == 4
\* counter values given to enforce_constraints: 0 .. MaxClampVal
MaxClampVal == 2
\* total_count values the API answers the reconciler with: 0 .. MaxTotalCount
MaxTotalCount == 2
\* most 403 responses the API gives to the requests for one row
MaxRateLimited == 4
\* largest table the collector appends to
MaxCollectedRows == 1

(***************************************************************************)
(* Program constants.                                                      *)
(***************************************************************************)
\* range(20, total_rows, 20)
SAMPLE_STRIDE == 20
\* for attempt in range(3)
MAX_ATTEMPTS == 3

\* NONDRAFT_QUERIES.values(), in insertion order
NONDRAFT_QUERIES ==
  <<"copilot_nondraft", "codex_nondraft", "cursor_nondraft",
    "devin_nondraft", "codegen_nondraft">>

\* agents of enforce_constraints, in order
agents == <<"copilot", "codex", "cursor", "devin", "codegen">>

\* f"{agent}_total"
total_key(agent) ==
  CASE agent = "copilot" -> "copilot_total"
    [] agent = "codex"   -> "codex_total"
    [] agent = "cursor"  -> "cursor_total"
    [] agent = "devin"   -> "devin_total"
    [] agent = "codegen" -> "codegen_total"

\* f"{agent}_merged"
merged_key(agent) ==
  CASE agent = "copilot" -> "copilot_merged"
    [] agent = "codex"   -> "codex_merged"
    [] agent = "cursor"  -> "cursor_merged"
    [] agent = "devin"   -> "devin_merged"
    [] agent = "codegen" -> "codegen_merged"

\* f"{agent}_nondraft"
nondraft_key(agent) ==
  CASE agent = "copilot" -> "copilot_nondraft"
    [] agent = "codex"   -> "codex_nondraft"
    [] agent = "cursor"  -> "cursor_nondraft"
    [] agent = "devin"   -> "devin_nondraft"
    [] agent = "codegen" -> "codegen_nondraft"

(***************************************************************************)
(* Generic helpers.                                                        *)
(***************************************************************************)
Range(s) == {s[j] : j \in 1..Len(s)}

SetMax(S) == CHOOSE x \in S : \A y \in S : y <= x

SetMin(S) == CHOOSE x \in S : \A y \in S : x <= y

Max2(a, b) == IF a >= b THEN a ELSE b

Min2(a, b) == IF a <= b THEN a ELSE b

EmptyDict == [k \in {} |-> 0]

\* d[k] = v on a dict
DictSet(d, k, v) == [x \in DOMAIN d \cup {k} |-> IF x = k THEN v ELSE d[x]]

\* row.update(d)
DictUpdate(row, d) ==
  [x \in DOMAIN row \cup DOMAIN d |-> IF x \in DOMAIN d THEN d[x] ELSE row[x]]

(***************************************************************************)
(* The persisted table.  A file is NoFile or a record of the header (the   *)
(* list of column names) and the body (the list of rows, each a dict from  *)
(* column name to cell).  A column absent from a row's DOMAIN is an empty  *)
(* cell.  The timestamp cell is text: the seconds it denotes and the kind  *)
(* of hyphen it is spelled with (ASCII or U+2011).                         *)
(***************************************************************************)
NoFile == [header |-> <<>>, body |-> <<>>, exists |-> FALSE]

\* the columns of data.csv before the backfill
OldFieldnames ==
  <<"timestamp",
    "copilot_total", "copilot_merged", "codex_total", "codex_merged",
    "cursor_total", "cursor_merged", "devin_total", "devin_merged",
    "codegen_total", "codegen_merged">>

\* row idx (0-based) of the input table: two rows per second, every other
\* timestamp spelled with U+2011
InputRow(idx) ==
  [k \in Range(OldFieldnames) |->
     IF k = "timestamp"
       THEN [secs |-> idx \div 2,
             dash |-> IF idx % 2 = 1 THEN "u2011" ELSE "ascii"]
       ELSE IF k \in {total_key(agents[a]) : a \in 1..Len(agents)}
         THEN idx + 2
         ELSE idx \div 2]

InputFile(n) ==
  [header |-> OldFieldnames,
   body   |-> [j \in 1..n |-> InputRow(j - 1)],
   exists |-> TRUE]

\* parse_timestamp: U+2011 is replaced by "-" and the text parsed; the
\* datetime is represented by its seconds
parse_timestamp(cell) == cell.secs

\* csv.DictWriter.writerow(row): one cell per fieldname, the empty cell
\* (restval) for a key the row lacks
WrittenRow(fieldnames, row) ==
  [k \in Range(fieldnames) \cap DOMAIN row |-> row[k]]

(***************************************************************************)
(* The search API: the number of pull requests matching a metric's query   *)
(* created before time t.                                                  *)
(***************************************************************************)
KeyNo(key) == CHOOSE j \in 1..Len(NONDRAFT_QUERIES) : NONDRAFT_QUERIES[j] = key

ApiCount(key, t) == KeyNo(key) * (t + 1)

(***************************************************************************)
(* interpolate_linear.  The value start_val + (end_val - start_val) *      *)
(* ratio is the rational num / den below; Python's round() of it is the    *)
(* nearest integer, a tie going to the even neighbour.  (On the inputs of  *)
(* this model the double-precision result of the source is that integer.)  *)
(***************************************************************************)
\* floor of p / q, q > 0
FloorDiv(p, q) == IF p >= 0 THEN p \div q ELSE -((-p + q - 1) \div q)

\* PyRound truncating downwards, as int(math.floor(p / q))
PyRound_Floor(p, q) == FloorDiv(p, q)

\* round(p / q), q > 0
PyRound(p, q) ==
  LET f == FloorDiv(p, q)
      r == p - f * q
  IN  IF 2 * r < q THEN f
      ELSE IF 2 * r > q THEN f + 1
      ELSE IF f % 2 = 0 THEN f ELSE f + 1

\* InterpNum running from end_val down to start_val
InterpNum_Reversed(start_val, end_val, start_time, end_time, target_time) ==
  end_val * (end_time - start_time)
    + (start_val - end_val) * (target_time - start_time)

\* InterpNum with the ratio measured from end_time
InterpNum_FromEnd(start_val, end_val, start_time, end_time, target_time) ==
  start_val * (end_time - start_time)
    + (end_val - start_val) * (target_time - end_time)

\* start_val + (end_val - start_val) * ratio, times (end_time - start_time)
InterpNum(start_val, end_val, start_time, end_time, target_time) ==
  start_val * (end_time - start_time)
    + (end_val - start_val) * (target_time - start_time)

\* interpolate_linear returning end_val for equal times
interpolate_linear_ReturnsEnd(start_val, end_val, start_time, end_time, target_time) ==
  IF start_time = end_time
    THEN end_val
    ELSE LET num == InterpNum(start_val, end_val, start_time, end_time, target_time)
             den == end_time - start_time
         IN  IF den > 0 THEN PyRound(num, den) ELSE PyRound(-num, -den)

interpolate_linear(start_val, end_val, start_time, end_time, target_time) ==
  IF start_time = end_time
    THEN start_val
    ELSE LET num == InterpNum(start_val, end_val, start_time, end_time, target_time)
             den == end_time - start_time
         IN  IF den > 0 THEN PyRound(num, den) ELSE PyRound(-num, -den)

(***************************************************************************)
(* enforce_constraints: the agents in order, each clamped when its three   *)
(* keys are in the row.  The row is changed in place and returned.         *)
(***************************************************************************)
\* ClampNondraft without the lower clamp
ClampNondraft_NoFloor(total, merged, nondraft) == Min2(nondraft, total)

\* ClampNondraft moving nondraft one unit towards the bounds
ClampNondraft_OneStep(total, merged, nondraft) ==
  IF nondraft > total THEN nondraft - 1
  ELSE IF nondraft < merged THEN nondraft + 1
  ELSE nondraft

\* nondraft = max(merged, min(nondraft, total))
ClampNondraft(total, merged, nondraft) == Max2(merged, Min2(nondraft, total))

HasTriple(row, agent) ==
  {total_key(agent), merged_key(agent), nondraft_key(agent)} \subseteq DOMAIN row

\* EnforceAgent setting nondraft to 0 for an agent without its three keys
EnforceAgent_ZeroWithoutTriple(row, agent) ==
  IF HasTriple(row, agent)
    THEN DictSet(row, nondraft_key(agent),
                 ClampNondraft(row[total_key(agent)], row[merged_key(agent)],
                               row[nondraft_key(agent)]))
    ELSE IF nondraft_key(agent) \in DOMAIN row
      THEN DictSet(row, nondraft_key(agent), 0)
      ELSE row

EnforceAgent(row, agent) ==
  IF HasTriple(row, agent)
    THEN DictSet(row, nondraft_key(agent),
                 ClampNondraft(row[total_key(agent)], row[merged_key(agent)],
                               row[nondraft_key(agent)]))
    ELSE row

RECURSIVE EnforceFrom(_, _)
EnforceFrom(row, a) ==
  IF a > Len(agents) THEN row ELSE EnforceFrom(EnforceAgent(row, agents[a]), a + 1)

enforce_constraints(row) == EnforceFrom(row, 1)

(***************************************************************************)
(* State.                                                                  *)
(***************************************************************************)
VARIABLES
  \* main of src/add_nondraft_final.py
  pc,              \* where main is
  data_csv,        \* the file data.csv
  data_backup,     \* the file data_backup.csv
  rows,            \* rows = list(reader)
  total_rows,      \* len(rows)
  new_fieldnames,  \* fieldnames + list(NONDRAFT_QUERIES.values())
  sample_indices,  \* the sampler's list
  range_i,         \* i of `for i in range(20, total_rows, 20)`
  sample_pos,      \* i of `for i, idx in enumerate(sample_indices)`
  sample_data,     \* idx -> {"timestamp", "counts"}
  \* get_nondraft_counts_at_time
  timestamp,       \* its argument
  counts,          \* its result so far
  key_pos,         \* position in NONDRAFT_QUERIES of the metric being queried
  attempt,         \* attempt of `for attempt in range(3)`
  faults,          \* responses other than 200 so far in this run
  query_log,       \* the latest query and the responses to its requests
  \* the write loop
  idx,             \* idx of `for idx in range(total_rows)`
  pairs,           \* idx -> <<prev_idx, next_idx>> of each interpolated row
  \* one call of interpolate_linear
  interp,
  \* one call of enforce_constraints
  clamp,
  \* collect_data of src/collect_data.py
  collector,
  \* main of src/scripts/reconcile_codegen_merged.py
  reconciler,
  \* main of src/scripts/add_nondraft_final.py
  exact

mainVars == <<pc, data_csv, data_backup, rows, total_rows, new_fieldnames>>
samplerVars == <<sample_indices, range_i>>
queryVars == <<sample_pos, sample_data, timestamp, counts, key_pos, attempt,
               faults, query_log>>
writeVars == <<idx, pairs>>
scriptVars == <<collector, reconciler, exact>>
vars == <<mainVars, samplerVars, queryVars, writeVars, interp, clamp,
          scriptVars>>

NoCall == [called |-> FALSE]

\* no request has been made yet
NoQuery == [query |-> <<-1, "">>, responses |-> <<>>]

\* the collector and the reconciler are not running
CollectorIdle ==
  [cnt |-> EmptyDict, key_pos |-> 0, attempt |-> 0, log |-> NoQuery]

ReconcilerIdle ==
  [backup |-> NoFile, header |-> <<>>, rows |-> <<>>, codegen_rows |-> <<>>,
   i |-> 0, requests |-> 0, fetched |-> EmptyDict, skipped |-> {},
   differences |-> <<>>]

\* the backfill of src/scripts is not running
ExactIdle ==
  [rows |-> <<>>, total_rows |-> 0, new_fieldnames |-> <<>>, tmp |-> NoFile,
   idx |-> 0, counts |-> EmptyDict, key_pos |-> 0, attempt |-> 0]

ScriptsIdle ==
  /\ collector = CollectorIdle
  /\ reconciler = ReconcilerIdle
  /\ exact = ExactIdle

\* main has not read anything yet
MainIdle ==
  /\ data_backup = NoFile
  /\ rows = <<>>
  /\ total_rows = 0
  /\ new_fieldnames = <<>>
  /\ sample_indices = <<>>
  /\ range_i = 0
  /\ sample_pos = 0
  /\ sample_data = EmptyDict
  /\ timestamp = 0
  /\ counts = EmptyDict
  /\ key_pos = 0
  /\ attempt = 0
  /\ faults = 0
  /\ query_log = NoQuery
  /\ idx = 0
  /\ pairs = EmptyDict

\* python list index: rows[idx] is defined
PyIndexOK(j, n) == -n <= j /\ j < n

(***************************************************************************)
(* main of src/add_nondraft_final.py: the early returns, the backup and    *)
(* the read.                                                               *)
(***************************************************************************)
\* `if not input_file.exists(): return`
Main_NoFile ==
  /\ pc = "main"
  /\ ~data_csv.exists
  /\ pc' = "returned"
  /\ UNCHANGED <<data_csv, data_backup, rows, total_rows, new_fieldnames,
                 samplerVars, queryVars, writeVars, interp, clamp, scriptVars>>

\* `if not test_single_query(): return`
Main_ApiTestFailed ==
  /\ pc = "main"
  /\ data_csv.exists
  /\ pc' = "returned"
  /\ UNCHANGED <<data_csv, data_backup, rows, total_rows, new_fieldnames,
                 samplerVars, queryVars, writeVars, interp, clamp, scriptVars>>

\* shutil.copy2, csv.DictReader, and the start of the sampler
Main_BackupAndRead ==
  /\ pc = "main"
  /\ data_csv.exists
  /\ data_backup' = data_csv
  /\ rows' = data_csv.body
  /\ total_rows' = Len(data_csv.body)
  /\ new_fieldnames' = data_csv.header \o NONDRAFT_QUERIES
  /\ sample_indices' = <<0>>
  /\ range_i' = SAMPLE_STRIDE
  /\ pc' = "sampler"
  /\ UNCHANGED <<data_csv, queryVars, writeVars, interp, clamp, scriptVars>>

(***************************************************************************)
(* The sampler: first, every 20th, last.                                   *)
(***************************************************************************)
\* Sampler_Stride with range(20, total_rows + 1, 20)
Sampler_Stride_Inclusive ==
  /\ pc = "sampler"
  /\ range_i <= total_rows
  /\ sample_indices' = Append(sample_indices, range_i)
  /\ range_i' = range_i + SAMPLE_STRIDE
  /\ UNCHANGED <<mainVars, queryVars, writeVars, interp, clamp, scriptVars>>

\* `for i in range(20, total_rows, 20): sample_indices.append(i)`
Sampler_Stride ==
  /\ pc = "sampler"
  /\ range_i < total_rows
  /\ sample_indices' = Append(sample_indices, range_i)
  /\ range_i' = range_i + SAMPLE_STRIDE
  /\ UNCHANGED <<mainVars, queryVars, writeVars, interp, clamp, scriptVars>>

\* Sampler_Last without the membership test
Sampler_Last_AlwaysAppend ==
  /\ pc = "sampler"
  /\ range_i >= total_rows
  /\ sample_indices' = Append(sample_indices, total_rows - 1)
  /\ pc' = "sample"
  /\ sample_pos' = 0
  /\ UNCHANGED <<data_csv, data_backup, rows, total_rows, new_fieldnames, range_i,
                 sample_data, timestamp, counts, key_pos, attempt, faults,
                 query_log, writeVars, interp, clamp, scriptVars>>

\* `if (total_rows - 1) not in sample_indices: sample_indices.append(...)`
Sampler_Last ==
  /\ pc = "sampler"
  /\ range_i >= total_rows
  /\ sample_indices' =
       IF (total_rows - 1) \notin Range(sample_indices)
         THEN Append(sample_indices, total_rows - 1)
         ELSE sample_indices
  /\ pc' = "sample"
  /\ sample_pos' = 0
  /\ UNCHANGED <<data_csv, data_backup, rows, total_rows, new_fieldnames, range_i,
                 sample_data, timestamp, counts, key_pos, attempt, faults,
                 query_log, writeVars, interp, clamp, scriptVars>>

(***************************************************************************)
(* The sampling loop of main and get_nondraft_counts_at_time.  A response  *)
(* ends the attempt loop of its metric (break, or the last attempt), or    *)
(* leaves it to the next attempt; the end of the last metric's loop is the *)
(* return of counts, stored in sample_data by main.  (The function raises  *)
(* nothing: every request is inside its try, so main's except around the   *)
(* call is never entered.)                                                 *)
(***************************************************************************)
\* `row = rows[idx]`, parse_timestamp, the call
Sample_Begin ==
  /\ pc = "sample"
  /\ sample_pos < Len(sample_indices)
  /\ LET sidx == sample_indices[sample_pos + 1]
     IN  IF PyIndexOK(sidx, total_rows)
           THEN /\ timestamp' = parse_timestamp(rows[sidx + 1]["timestamp"])
                /\ counts' = EmptyDict
                /\ key_pos' = 1
                /\ attempt' = 0
                /\ pc' = "query"
           ELSE \* IndexError
                /\ pc' = "crashed"
                /\ UNCHANGED <<timestamp, counts, key_pos, attempt>>
  /\ UNCHANGED <<data_csv, data_backup, rows, total_rows, new_fieldnames,
                 samplerVars, sample_pos, sample_data, faults, query_log,
                 writeVars, interp, clamp, scriptVars>>

\* the log of a query after one more response to it
LogAfter(log, query, response) ==
  [query |-> query,
   responses |-> IF log.query = query THEN Append(log.responses, response)
                                       ELSE <<response>>]

\* the response to a request of get_nondraft_counts_at_time is logged
Logged(response) ==
  query_log' = LogAfter(query_log, <<sample_pos, NONDRAFT_QUERIES[key_pos]>>,
                        response)

\* the state after one response: new_counts is counts after it, loop_over
\* says that the attempt loop of this metric has ended
AfterResponse(new_counts, loop_over) ==
  IF ~loop_over
    THEN /\ attempt' = attempt + 1
         /\ counts' = new_counts
         /\ UNCHANGED <<pc, key_pos, sample_pos, sample_data>>
    ELSE IF key_pos < Len(NONDRAFT_QUERIES)
      THEN /\ key_pos' = key_pos + 1
           /\ attempt' = 0
           /\ counts' = new_counts
           /\ UNCHANGED <<pc, sample_pos, sample_data>>
      ELSE \* return counts; sample_data[idx] = {...}
           /\ sample_data' =
                DictSet(sample_data, sample_indices[sample_pos + 1],
                        [timestamp |-> timestamp, counts |-> new_counts])
           /\ sample_pos' = sample_pos + 1
           /\ counts' = EmptyDict
           /\ key_pos' = 0
           /\ attempt' = 0
           /\ pc' = "sample"

InQuery == pc = "query" /\ key_pos \in 1..Len(NONDRAFT_QUERIES) /\ attempt < MAX_ATTEMPTS

LastAttempt == attempt = MAX_ATTEMPTS - 1

\* status 200: counts[key] = r.json()["total_count"]; break
Response_200 ==
  /\ InQuery
  /\ LET key == NONDRAFT_QUERIES[key_pos]
     IN  AfterResponse(DictSet(counts, key, ApiCount(key, timestamp)), TRUE)
  /\ Logged("200")
  /\ UNCHANGED <<data_csv, data_backup, rows, total_rows, new_fieldnames,
                 samplerVars, timestamp, faults, writeVars, interp, clamp, scriptVars>>

\* Response_403 leaving the attempt as it is: the request is made again
\* without a step of `for attempt in range(3)`
Response_403_Uncounted ==
  /\ InQuery
  /\ faults < MaxFaults
  /\ faults' = faults + 1
  /\ Logged("403")
  /\ UNCHANGED <<pc, counts, key_pos, attempt, sample_pos, sample_data>>
  /\ UNCHANGED <<data_csv, data_backup, rows, total_rows, new_fieldnames,
                 samplerVars, timestamp, writeVars, interp, clamp, scriptVars>>

\* status 403: sleep; continue
Response_403 ==
  /\ InQuery
  /\ faults < MaxFaults
  /\ faults' = faults + 1
  /\ AfterResponse(counts, LastAttempt)
  /\ Logged("403")
  /\ UNCHANGED <<data_csv, data_backup, rows, total_rows, new_fieldnames,
                 samplerVars, timestamp, writeVars, interp, clamp, scriptVars>>

\* Response_422 going on to the next attempt as a 403 does
Response_422_Retried ==
  /\ InQuery
  /\ faults < MaxFaults
  /\ faults' = faults + 1
  /\ AfterResponse(counts, LastAttempt)
  /\ Logged("422")
  /\ UNCHANGED <<data_csv, data_backup, rows, total_rows, new_fieldnames,
                 samplerVars, timestamp, writeVars, interp, clamp, scriptVars>>

\* status 422: counts[key] = 0; break
Response_422 ==
  /\ InQuery
  /\ faults < MaxFaults
  /\ faults' = faults + 1
  /\ AfterResponse(DictSet(counts, NONDRAFT_QUERIES[key_pos], 0), TRUE)
  /\ Logged("422")
  /\ UNCHANGED <<data_csv, data_backup, rows, total_rows, new_fieldnames,
                 samplerVars, timestamp, writeVars, interp, clamp, scriptVars>>

\* Request_Exception giving the metric up at once, with no value
Request_Exception_GivesUp ==
  /\ InQuery
  /\ faults < MaxFaults
  /\ faults' = faults + 1
  /\ AfterResponse(counts, TRUE)
  /\ Logged("exception")
  /\ UNCHANGED <<data_csv, data_backup, rows, total_rows, new_fieldnames,
                 samplerVars, timestamp, writeVars, interp, clamp, scriptVars>>

\* requests.get, raise_for_status or r.json() raises: counts[key] = 0 on the
\* last attempt, nothing otherwise
Request_Exception ==
  /\ InQuery
  /\ faults < MaxFaults
  /\ faults' = faults + 1
  /\ AfterResponse(IF LastAttempt
                     THEN DictSet(counts, NONDRAFT_QUERIES[key_pos], 0)
                     ELSE counts,
                   LastAttempt)
  /\ Logged("exception")
  /\ UNCHANGED <<data_csv, data_backup, rows, total_rows, new_fieldnames,
                 samplerVars, timestamp, writeVars, interp, clamp, scriptVars>>

(***************************************************************************)
(* The write loop of main: data.csv is opened for writing (truncated), the *)
(* header written, then one row per iteration.                             *)
(***************************************************************************)
\* `with input_file.open("w")`, writer.writeheader()
Write_Open ==
  /\ pc = "sample"
  /\ sample_pos = Len(sample_indices)
  /\ data_csv' = [header |-> new_fieldnames, body |-> <<>>, exists |-> TRUE]
  /\ idx' = 0
  /\ pc' = IF total_rows = 0 THEN "done" ELSE "write"
  /\ query_log' = NoQuery
  /\ UNCHANGED <<data_backup, rows, total_rows, new_fieldnames, samplerVars,
                 sample_pos, sample_data, timestamp, counts, key_pos, attempt,
                 faults, pairs, interp, clamp, scriptVars>>

\* `prev_idx = max([i for i in sample_indices if i < idx])`
PrevCandidates(samples, j) == {s \in Range(samples) : s < j}

\* `next_idx = min([i for i in sample_indices if i > idx])`
NextCandidates(samples, j) == {s \in Range(samples) : s > j}

\* prev_idx taking the first sample below the row, not the nearest
prev_idx_First(samples, j) == SetMin(PrevCandidates(samples, j))

prev_idx(samples, j) == SetMax(PrevCandidates(samples, j))

next_idx(samples, j) == SetMin(NextCandidates(samples, j))

\* SampledRow without the update
SampledRow_Unfilled(row, data) == row

\* `row.update(sample_data[idx]["counts"])`
SampledRow(row, data) == DictUpdate(row, data.counts)

\* `for key in NONDRAFT_QUERIES.values(): row[key] = interpolate_linear(...)`
InterpolatedRow(row, prev_data, next_data) ==
  DictUpdate(row,
    [key \in Range(NONDRAFT_QUERIES) |->
       interpolate_linear(prev_data.counts[key], next_data.counts[key],
                          prev_data.timestamp, next_data.timestamp,
                          parse_timestamp(row["timestamp"]))])

\* the interpolation of row j raises: max() or min() of an empty list
\* (ValueError), or a sample's counts lacks a key (KeyError)
InterpolationRaises(j) ==
  \/ PrevCandidates(sample_indices, j) = {}
  \/ NextCandidates(sample_indices, j) = {}
  \/ \E key \in Range(NONDRAFT_QUERIES) :
       \/ key \notin DOMAIN sample_data[prev_idx(sample_indices, j)].counts
       \/ key \notin DOMAIN sample_data[next_idx(sample_indices, j)].counts

\* writer.writerow(row) and the end of the iteration
RowWritten(row) ==
  /\ data_csv' = [data_csv EXCEPT
                    !.body = Append(@, WrittenRow(new_fieldnames, row))]
  /\ idx' = idx + 1
  /\ pc' = IF idx + 1 = total_rows THEN "done" ELSE "write"

\* `if idx in sample_data`
Write_SampledRow ==
  /\ pc = "write"
  /\ idx < total_rows
  /\ idx \in DOMAIN sample_data
  /\ RowWritten(SampledRow(rows[idx + 1], sample_data[idx]))
  /\ UNCHANGED <<data_backup, rows, total_rows, new_fieldnames, samplerVars,
                 queryVars, pairs, interp, clamp, scriptVars>>

\* `else`: interpolate between the nearest samples
Write_InterpolatedRow ==
  /\ pc = "write"
  /\ idx < total_rows
  /\ idx \notin DOMAIN sample_data
  /\ ~InterpolationRaises(idx)
  /\ LET p == prev_idx(sample_indices, idx)
         n == next_idx(sample_indices, idx)
     IN  /\ RowWritten(InterpolatedRow(rows[idx + 1], sample_data[p], sample_data[n]))
         /\ pairs' = DictSet(pairs, idx, <<p, n>>)
  /\ UNCHANGED <<data_backup, rows, total_rows, new_fieldnames, samplerVars,
                 queryVars, interp, clamp, scriptVars>>

\* `else`, and the interpolation raises: main ends with the exception, the
\* file closed as far as it was written
Write_InterpolationRaises ==
  /\ pc = "write"
  /\ idx < total_rows
  /\ idx \notin DOMAIN sample_data
  /\ InterpolationRaises(idx)
  /\ pairs' = IF PrevCandidates(sample_indices, idx) = {}
                  \/ NextCandidates(sample_indices, idx) = {}
                THEN pairs
                ELSE DictSet(pairs, idx, <<prev_idx(sample_indices, idx),
                                          next_idx(sample_indices, idx)>>)
  /\ pc' = "crashed"
  /\ UNCHANGED <<data_csv, data_backup, rows, total_rows, new_fieldnames,
                 samplerVars, queryVars, idx, interp, clamp, scriptVars>>

(***************************************************************************)
(* The backfill run: data.csv is absent or holds a table of one of the     *)
(* sizes of TableSizes: the small ones, one whose last row is on the       *)
(* stride (21) and one whose last row is not (25).                         *)
(***************************************************************************)
TableSizes == (0..MaxRows) \cup {SAMPLE_STRIDE + 1, SAMPLE_STRIDE + 5}

Init ==
  /\ pc = "main"
  /\ \/ data_csv = NoFile
     \/ \E n \in TableSizes : data_csv = InputFile(n)
  /\ MainIdle
  /\ ScriptsIdle
  /\ interp = NoCall
  /\ clamp = NoCall

Next ==
  \/ Main_NoFile
  \/ Main_ApiTestFailed
  \/ Main_BackupAndRead
  \/ Sampler_Stride
  \/ Sampler_Last
  \/ Sample_Begin
  \/ Response_200
  \/ Response_403
  \/ Response_422
  \/ Request_Exception
  \/ Write_Open
  \/ Write_SampledRow
  \/ Write_InterpolatedRow
  \/ Write_InterpolationRaises

Spec == Init /\ [][Next]_vars

(***************************************************************************)
(* The sampler alone, on every table of 0 .. MaxSampleRows rows: main up   *)
(* to the end of the sampler.                                              *)
(***************************************************************************)
InitSample ==
  /\ pc = "main"
  /\ \E n \in 0..MaxSampleRows : data_csv = InputFile(n)
  /\ MainIdle
  /\ ScriptsIdle
  /\ interp = NoCall
  /\ clamp = NoCall

NextSample ==
  \/ Main_ApiTestFailed
  \/ Main_BackupAndRead
  \/ Sampler_Stride
  \/ Sampler_Last

SpecSample == InitSample /\ [][NextSample]_vars

(***************************************************************************)
(* One call of interpolate_linear, on every combination of values of       *)
(* InterpVals and times (in seconds) of InterpTimes.                       *)
(***************************************************************************)
InterpVals == (0..MaxInterpVal) \cup {10, 20}

InterpTimes == (0..MaxInterpTime) \cup {50, 100}

InitInterp ==
  /\ pc = "idle"
  /\ data_csv = NoFile
  /\ MainIdle
  /\ ScriptsIdle
  /\ clamp = NoCall
  /\ \E sv \in InterpVals, ev \in InterpVals,
        st \in InterpTimes, et \in InterpTimes, tt \in InterpTimes :
       interp = [called |-> FALSE, start_val |-> sv, end_val |-> ev,
                 start_time |-> st, end_time |-> et, target_time |-> tt,
                 result |-> 0]

Call_interpolate_linear ==
  /\ ~interp.called
  /\ interp' = [interp EXCEPT
                  !.called = TRUE,
                  !.result = interpolate_linear(interp.start_val, interp.end_val,
                                                interp.start_time, interp.end_time,
                                                interp.target_time)]
  /\ UNCHANGED <<mainVars, samplerVars, queryVars, writeVars, clamp,
                 scriptVars>>

NextInterp == Call_interpolate_linear

SpecInterp == InitInterp /\ [][NextInterp]_vars

(***************************************************************************)
(* One call of enforce_constraints(row).  The row given has the triple     *)
(* (total, merged, nondraft) of one agent drawn from ClampVals, possibly   *)
(* with one of the three keys dropped; the other agents have their         *)
(* nondraft key or lack it.  clamp.input is the row as it was at the call, *)
(* clamp.row the caller's row object, clamp.returned the value returned.   *)
(* The function is then applied once more, to the value it returned:       *)
(* clamp.again is the value returned by that second call.                  *)
(***************************************************************************)
ClampVals == (0..MaxClampVal) \cup {20, 50, 80, 100, 150}

AgentOfKey(k) ==
  CHOOSE j \in 1..Len(agents) :
    k \in {total_key(agents[j]), merged_key(agents[j]), nondraft_key(agents[j])}

ClampRow(focus, total, merged, nondraft, others, dropped) ==
  LET all  == Range(OldFieldnames) \cup Range(NONDRAFT_QUERIES)
      gone == {k \in all : \/ k = dropped
                           \/ /\ others = "absent"
                              /\ k \in Range(NONDRAFT_QUERIES)
                              /\ k # nondraft_key(focus)}
  IN  [k \in all \ gone |->
         IF k = "timestamp" THEN [secs |-> 0, dash |-> "ascii"]
         ELSE LET j == AgentOfKey(k)
              IN  IF agents[j] = focus
                    THEN IF k = total_key(focus) THEN total
                         ELSE IF k = merged_key(focus) THEN merged
                         ELSE nondraft
                    ELSE IF k = total_key(agents[j]) THEN 4
                         ELSE IF k = merged_key(agents[j]) THEN 2
                         ELSE (3 * j) % 7]

InitClamp ==
  /\ pc = "idle"
  /\ data_csv = NoFile
  /\ MainIdle
  /\ ScriptsIdle
  /\ interp = NoCall
  /\ \E a \in 1..Len(agents), t \in ClampVals, m \in ClampVals, nd \in ClampVals,
        others \in {"absent", "present"} :
       \E dropped \in {"none", total_key(agents[a]), merged_key(agents[a]),
                       nondraft_key(agents[a])} :
         LET row == ClampRow(agents[a], t, m, nd, others, dropped)
         IN  clamp = [called |-> FALSE, input |-> row, row |-> row,
                      returned |-> EmptyDict, called_again |-> FALSE,
                      again |-> EmptyDict]

\* the caller's row object left untouched by the call
ArgumentAfterCall_Untouched(row) == row

\* the caller's row object after enforce_constraints(row): the function
\* assigns `row[nondraft_key] = nondraft` on the object it is given and
\* returns that object
ArgumentAfterCall(row) == enforce_constraints(row)

Call_enforce_constraints ==
  /\ ~clamp.called
  /\ clamp' = [clamp EXCEPT !.called = TRUE,
                            !.row = ArgumentAfterCall(clamp.row),
                            !.returned = enforce_constraints(clamp.row)]
  /\ UNCHANGED <<mainVars, samplerVars, queryVars, writeVars, interp,
                 scriptVars>>

\* enforce_constraints applied to the row it returned
Call_enforce_constraints_Again ==
  /\ clamp.called
  /\ ~clamp.called_again
  /\ clamp' = [clamp EXCEPT !.called_again = TRUE,
                            !.row = ArgumentAfterCall(clamp.row),
                            !.again = enforce_constraints(clamp.returned)]
  /\ UNCHANGED <<mainVars, samplerVars, queryVars, writeVars, interp,
                 scriptVars>>

NextClamp ==
  \/ Call_enforce_constraints
  \/ Call_enforce_constraints_Again

SpecClamp == InitClamp /\ [][NextClamp]_vars

(***************************************************************************)
(* src/scripts/reconcile_codegen_merged.py.  csv.reader gives the header   *)
(* and each row as a list of cells; header.index(name) is the position of  *)
(* a column, so the cell row[header.index(name)] is written row[name]      *)
(* here, the rows being dicts from column name to cell as above.  A cell   *)
(* of a count column is the integer its text denotes: int(cell) is the     *)
(* cell and str(n) is n.  The header of a table written by this program    *)
(* has the three columns looked up at lines 92-94.                         *)
(***************************************************************************)
\* everything but pc, data.csv and the two scripts below
backfillVars ==
  <<data_backup, rows, total_rows, new_fieldnames, samplerVars, queryVars,
    writeVars, interp, clamp>>

\* the table given to the reconciler: InputFile(n) with no codegen pull
\* request yet in the rows of `early`
ReconcileInput(n, early) ==
  [header |-> OldFieldnames,
   body   |-> [j \in 1..n |->
                 [k \in Range(OldFieldnames) |->
                    IF (j - 1) \in early /\ k \in {"codegen_total", "codegen_merged"}
                      THEN 0
                      ELSE InputRow(j - 1)[k]]],
   exists |-> TRUE]

\* HasCodegenData taking every row
HasCodegenData_EveryRow(row) == TRUE

\* `if int(row[codegen_total_idx]) > 0`
HasCodegenData(row) == row["codegen_total"] > 0

\* codegen_rows: the indices i of rows with codegen data, in order
RECURSIVE CodegenRowsFrom(_, _)
CodegenRowsFrom(table, i) ==
  IF i >= Len(table) THEN <<>>
  ELSE IF HasCodegenData(table[i + 1])
    THEN <<i>> \o CodegenRowsFrom(table, i + 1)
    ELSE CodegenRowsFrom(table, i + 1)

\* create_backup raises FileNotFoundError: there is no data.csv
Reconcile_NoFile ==
  /\ pc = "reconcile"
  /\ ~data_csv.exists
  /\ pc' = "crashed"
  /\ UNCHANGED <<data_csv, backfillVars, scriptVars>>

\* create_backup, the read of data.csv, the column indices, codegen_rows
\* and the print of the first of them (IndexError when there is none)
Reconcile_Read ==
  /\ pc = "reconcile"
  /\ data_csv.exists
  /\ LET found == CodegenRowsFrom(data_csv.body, 0)
     IN  /\ reconciler' = [reconciler EXCEPT !.backup = data_csv,
                                             !.header = data_csv.header,
                                             !.rows = data_csv.body,
                                             !.codegen_rows = found]
         /\ pc' = IF {"codegen_merged", "codegen_total", "timestamp"}
                       \subseteq Range(data_csv.header)
                    THEN IF found = <<>> THEN "crashed" ELSE "reconcile_fetch"
                    ELSE "returned"
  /\ UNCHANGED <<data_csv, backfillVars, collector, exact>>

\* the loop is at a row of codegen_rows
InFetch ==
  /\ pc = "reconcile_fetch"
  /\ reconciler.i < Len(reconciler.codegen_rows)

\* row_idx of the iteration
RowIdx == reconciler.codegen_rows[reconciler.i + 1]

\* `old_merged = int(row[codegen_merged_idx])`
OldMerged == reconciler.rows[RowIdx + 1]["codegen_merged"]

\* DiffNeeded recording every fetched row
DiffNeeded_Always(new_merged, old_merged) == TRUE

\* `if new_merged != old_merged`
DiffNeeded(new_merged, old_merged) == new_merged # old_merged

\* the entry appended to differences
DiffEntry(row_idx, row, new_merged) ==
  [row        |-> row_idx + 2,
   timestamp  |-> row["timestamp"],
   old_merged |-> row["codegen_merged"],
   new_merged |-> new_merged,
   difference |-> new_merged - row["codegen_merged"]]

\* get_merged_count returned a value: status 200, data.get("total_count", 0)
Reconcile_Response_200 ==
  /\ InFetch
  /\ \E new_merged \in 0..MaxTotalCount :
       reconciler' =
         [reconciler EXCEPT
            !.differences =
               IF DiffNeeded(new_merged, OldMerged)
                 THEN Append(@, DiffEntry(RowIdx, reconciler.rows[RowIdx + 1],
                                          new_merged))
                 ELSE @,
            !.rows[RowIdx + 1]["codegen_merged"] = new_merged,
            !.fetched = DictSet(@, RowIdx, new_merged),
            !.i = @ + 1,
            !.requests = 0]
  /\ UNCHANGED <<pc, data_csv, backfillVars, collector, exact>>

\* status 403: sleep 20 s, then `return get_merged_count(timestamp)`: the
\* same request again, with no count of the requests made
Reconcile_Response_403 ==
  /\ InFetch
  /\ reconciler.requests < MaxRateLimited
  /\ reconciler' = [reconciler EXCEPT !.requests = @ + 1]
  /\ UNCHANGED <<pc, data_csv, backfillVars, collector, exact>>

\* RowSkipped writing 0 to the cell of the row
RowSkipped_Zeroed(rec) ==
  [rec EXCEPT !.rows[RowIdx + 1]["codegen_merged"] = 0,
              !.skipped = @ \cup {RowIdx},
              !.i = @ + 1,
              !.requests = 0]

\* get_merged_count returned None: " -> API error, skipping"
RowSkipped(rec) ==
  [rec EXCEPT !.skipped = @ \cup {RowIdx},
              !.i = @ + 1,
              !.requests = 0]

\* any other status: return None
Reconcile_Response_Other ==
  /\ InFetch
  /\ reconciler' = RowSkipped(reconciler)
  /\ UNCHANGED <<pc, data_csv, backfillVars, collector, exact>>

\* requests.get or response.json() raises: return None
Reconcile_Request_Exception ==
  /\ InFetch
  /\ reconciler' = RowSkipped(reconciler)
  /\ UNCHANGED <<pc, data_csv, backfillVars, collector, exact>>

\* `with open("data.csv", "w")`: the file is truncated; writer.writerow(header)
Reconcile_Open ==
  /\ pc = "reconcile_fetch"
  /\ reconciler.i = Len(reconciler.codegen_rows)
  /\ data_csv' = [header |-> reconciler.header, body |-> <<>>, exists |-> TRUE]
  /\ pc' = "reconcile_write"
  /\ UNCHANGED <<backfillVars, scriptVars>>

\* writer.writerows(rows); the report
Reconcile_WriteRows ==
  /\ pc = "reconcile_write"
  /\ data_csv' = [data_csv EXCEPT !.body = reconciler.rows]
  /\ pc' = "reconciled"
  /\ UNCHANGED <<backfillVars, scriptVars>>

(***************************************************************************)
(* The reconciler run: data.csv is absent or holds a table of 0 .. MaxRows *)
(* rows, any of which may be without codegen data.                         *)
(***************************************************************************)
InitReconcile ==
  /\ pc = "reconcile"
  /\ \/ data_csv = NoFile
     \/ \E n \in 0..MaxRows : \E early \in SUBSET (0..(n - 1)) :
          data_csv = ReconcileInput(n, early)
  /\ MainIdle
  /\ interp = NoCall
  /\ clamp = NoCall
  /\ ScriptsIdle

NextReconcile ==
  \/ Reconcile_NoFile
  \/ Reconcile_Read
  \/ Reconcile_Response_200
  \/ Reconcile_Response_403
  \/ Reconcile_Response_Other
  \/ Reconcile_Request_Exception
  \/ Reconcile_Open
  \/ Reconcile_WriteRows

SpecReconcile == InitReconcile /\ [][NextReconcile]_vars

(***************************************************************************)
(* collect_data of src/collect_data.py: the 15 metrics of Q are queried in *)
(* order, each in its own attempt loop, then one row is appended to        *)
(* data.csv (after the header when the file is new).  The API answers a    *)
(* metric with CollectCount; the responses other than 200 share the        *)
(* budget MaxFaults of the run.                                            *)
(***************************************************************************)
\* Q.values(), in insertion order
Q ==
  <<"copilot_total", "copilot_merged", "copilot_nondraft",
    "codex_total", "codex_merged", "codex_nondraft",
    "cursor_total", "cursor_merged", "cursor_nondraft",
    "devin_total", "devin_merged", "devin_nondraft",
    "codegen_total", "codegen_merged", "codegen_nondraft">>

\* the header written to a new file, which is the order of the cells of row
CollectorFieldnames == OldFieldnames \o NONDRAFT_QUERIES

QNo(key) == CHOOSE j \in 1..Len(Q) : Q[j] = key

\* r.json()["total_count"] for a metric, now
CollectCount(key) == 30 + QNo(key)

\* a row of a table that has the nondraft columns
CollectedRow(j) ==
  [k \in Range(CollectorFieldnames) |->
     IF k \in Range(NONDRAFT_QUERIES) THEN j + 1 ELSE InputRow(j)[k]]

CollectedFile(n) ==
  [header |-> CollectorFieldnames,
   body   |-> [j \in 1..n |-> CollectedRow(j - 1)],
   exists |-> TRUE]

\* a line of cells read back under a header (csv.DictReader): cell j under
\* header[j], the cells beyond the header under "restkey"
LineAsRow(header, cells) ==
  LET named == [k \in {header[j] : j \in 1..Min2(Len(header), Len(cells))} |->
                  cells[CHOOSE j \in 1..Len(header) : header[j] = k]]
  IN  IF Len(cells) > Len(header)
        THEN DictSet(named, "restkey",
                     SubSeq(cells, Len(header) + 1, Len(cells)))
        ELSE named

\* `cnt = {}`, get_headers()
Collect_Begin ==
  /\ pc = "collect_data"
  /\ collector' = [collector EXCEPT !.cnt = EmptyDict, !.key_pos = 1,
                                    !.attempt = 0]
  /\ pc' = "collect"
  /\ UNCHANGED <<data_csv, backfillVars, reconciler, exact>>

InCollect ==
  /\ pc = "collect"
  /\ collector.key_pos \in 1..Len(Q)
  /\ collector.attempt < MAX_ATTEMPTS

CollectLastAttempt == collector.attempt = MAX_ATTEMPTS - 1

\* the collector after one response: new_cnt is cnt after it, loop_over
\* says that the attempt loop of this metric has ended
CollectorAfter(new_cnt, loop_over, response) ==
  [cnt     |-> new_cnt,
   key_pos |-> IF loop_over THEN collector.key_pos + 1 ELSE collector.key_pos,
   attempt |-> IF loop_over THEN 0 ELSE collector.attempt + 1,
   log     |-> LogAfter(collector.log, <<0, Q[collector.key_pos]>>, response)]

\* after the loop of the last metric comes the save
CollectPcAfter(loop_over) ==
  IF loop_over /\ collector.key_pos = Len(Q) THEN "collect_save" ELSE "collect"

\* status 200: cnt[key] = r.json()["total_count"]; break
Collect_Response_200 ==
  /\ InCollect
  /\ LET key == Q[collector.key_pos]
     IN  collector' = CollectorAfter(DictSet(collector.cnt, key, CollectCount(key)),
                                     TRUE, "200")
  /\ pc' = CollectPcAfter(TRUE)
  /\ UNCHANGED <<data_csv, backfillVars, reconciler, exact>>

\* status 403 with a rate limit text or header: wait, continue
Collect_Response_403_RateLimit ==
  /\ InCollect
  /\ faults < MaxFaults
  /\ faults' = faults + 1
  /\ collector' = CollectorAfter(collector.cnt, CollectLastAttempt, "403")
  /\ pc' = CollectPcAfter(CollectLastAttempt)
  /\ UNCHANGED <<data_csv, data_backup, rows, total_rows, new_fieldnames,
                 samplerVars, sample_pos, sample_data, timestamp, counts,
                 key_pos, attempt, query_log, writeVars, interp, clamp,
                 reconciler, exact>>

\* status 403 without: "403 Forbidden (not rate limit)", break
Collect_Response_403_Forbidden ==
  /\ InCollect
  /\ faults < MaxFaults
  /\ faults' = faults + 1
  /\ collector' = CollectorAfter(collector.cnt, TRUE, "403 forbidden")
  /\ pc' = CollectPcAfter(TRUE)
  /\ UNCHANGED <<data_csv, data_backup, rows, total_rows, new_fieldnames,
                 samplerVars, sample_pos, sample_data, timestamp, counts,
                 key_pos, attempt, query_log, writeVars, interp, clamp,
                 reconciler, exact>>

\* status 422: cnt[key] = 0; break
Collect_Response_422 ==
  /\ InCollect
  /\ faults < MaxFaults
  /\ faults' = faults + 1
  /\ collector' = CollectorAfter(DictSet(collector.cnt, Q[collector.key_pos], 0),
                                 TRUE, "422")
  /\ pc' = CollectPcAfter(TRUE)
  /\ UNCHANGED <<data_csv, data_backup, rows, total_rows, new_fieldnames,
                 samplerVars, sample_pos, sample_data, timestamp, counts,
                 key_pos, attempt, query_log, writeVars, interp, clamp,
                 reconciler, exact>>

\* requests.get, raise_for_status or r.json()["total_count"] raises:
\* cnt[key] = 0 on the last attempt, sleep 5 s otherwise
Collect_Request_Exception ==
  /\ InCollect
  /\ faults < MaxFaults
  /\ faults' = faults + 1
  /\ collector' = CollectorAfter(IF CollectLastAttempt
                                   THEN DictSet(collector.cnt,
                                                Q[collector.key_pos], 0)
                                   ELSE collector.cnt,
                                 CollectLastAttempt, "exception")
  /\ pc' = CollectPcAfter(CollectLastAttempt)
  /\ UNCHANGED <<data_csv, data_backup, rows, total_rows, new_fieldnames,
                 samplerVars, sample_pos, sample_data, timestamp, counts,
                 key_pos, attempt, query_log, writeVars, interp, clamp,
                 reconciler, exact>>

\* `if key not in cnt: cnt[key] = 0` for the expected keys
WithExpectedKeys(cnt) ==
  [k \in DOMAIN cnt \cup Range(Q) |-> IF k \in DOMAIN cnt THEN cnt[k] ELSE 0]

\* RowKeys with the merged count of codegen before its total
RowKeys_Swapped ==
  <<"timestamp",
    "copilot_total", "copilot_merged", "codex_total", "codex_merged",
    "cursor_total", "cursor_merged", "devin_total", "devin_merged",
    "codegen_merged", "codegen_total",
    "copilot_nondraft", "codex_nondraft", "cursor_nondraft",
    "devin_nondraft", "codegen_nondraft">>

\* the entries of `row = [timestamp, cnt["copilot_total"], ...]`, in order
RowKeys ==
  <<"timestamp",
    "copilot_total", "copilot_merged", "codex_total", "codex_merged",
    "cursor_total", "cursor_merged", "devin_total", "devin_merged",
    "codegen_total", "codegen_merged",
    "copilot_nondraft", "codex_nondraft", "cursor_nondraft",
    "devin_nondraft", "codegen_nondraft">>

\* the cells of `row`: the timestamp (now, spelled with U+2011), then the
\* counts listed
RowCells(cnt, now) ==
  [j \in 1..Len(RowKeys) |->
     IF j = 1 THEN [secs |-> now, dash |-> "u2011"]
              ELSE cnt[RowKeys[j]]]

\* Collect_Save opening the file with "w": what was there is lost
Collect_Save_Truncating ==
  /\ pc = "collect_save"
  /\ LET cnt == WithExpectedKeys(collector.cnt)
         now == Len(data_csv.body)
     IN  /\ collector' = [collector EXCEPT !.cnt = cnt]
         /\ data_csv' =
              [header |-> CollectorFieldnames,
               body   |-> <<LineAsRow(CollectorFieldnames, RowCells(cnt, now))>>,
               exists |-> TRUE]
  /\ pc' = "collected"
  /\ UNCHANGED <<backfillVars, reconciler, exact>>

\* the expected keys, the row, `csv_file.open("a")`, the header when the
\* file is new, writer.writerow(row)
Collect_Save ==
  /\ pc = "collect_save"
  /\ LET cnt    == WithExpectedKeys(collector.cnt)
         now    == Len(data_csv.body)
         header == IF data_csv.exists THEN data_csv.header
                                      ELSE CollectorFieldnames
     IN  /\ collector' = [collector EXCEPT !.cnt = cnt]
         /\ data_csv' =
              [header |-> header,
               body   |-> Append(data_csv.body,
                                 LineAsRow(header, RowCells(cnt, now))),
               exists |-> TRUE]
  /\ pc' = "collected"
  /\ UNCHANGED <<backfillVars, reconciler, exact>>

(***************************************************************************)
(* The collector run: data.csv is absent or holds a table of               *)
(* 1 .. MaxCollectedRows rows with the nondraft columns.                   *)
(***************************************************************************)
InitCollect ==
  /\ pc = "collect_data"
  /\ \/ data_csv = NoFile
     \/ \E n \in 1..MaxCollectedRows : data_csv = CollectedFile(n)
  /\ MainIdle
  /\ interp = NoCall
  /\ clamp = NoCall
  /\ ScriptsIdle

NextCollect ==
  \/ Collect_Begin
  \/ Collect_Response_200
  \/ Collect_Response_403_RateLimit
  \/ Collect_Response_403_Forbidden
  \/ Collect_Response_422
  \/ Collect_Request_Exception
  \/ Collect_Save

SpecCollect == InitCollect /\ [][NextCollect]_vars

(***************************************************************************)
(* The scripts that query the search API, each on its own run: the         *)
(* backfill on a table of 1 .. MaxRows rows, the collector and the         *)
(* reconciler.                                                             *)
(***************************************************************************)
InitRetry ==
  \/ /\ pc = "main"
     /\ \E n \in 1..MaxRows : data_csv = InputFile(n)
     /\ MainIdle
     /\ interp = NoCall
     /\ clamp = NoCall
     /\ ScriptsIdle
  \/ InitCollect
  \/ InitReconcile

NextRetry ==
  \/ Main_ApiTestFailed
  \/ Main_BackupAndRead
  \/ Sampler_Last
  \/ Sample_Begin
  \/ Response_200
  \/ Response_403
  \/ Response_422
  \/ Request_Exception
  \/ Write_Open
  \/ Write_SampledRow
  \/ Write_InterpolatedRow
  \/ Write_InterpolationRaises
  \/ NextCollect
  \/ NextReconcile

SpecRetry == InitRetry /\ [][NextRetry]_vars

(***************************************************************************)
(* main of src/scripts/add_nondraft_final.py: every row is queried, the    *)
(* rows are written to data.tmp and data.tmp replaces data.csv at the end. *)
(* The backup is data_backup.csv, as in the backfill of the root.  The     *)
(* cells of the model are integers, so int() in enforce_constraints does   *)
(* not raise and the `except Exception` of the row loop is never entered.  *)
(***************************************************************************)
exactFrame == <<rows, total_rows, new_fieldnames, samplerVars, sample_pos,
                sample_data, timestamp, counts, key_pos, attempt, query_log,
                writeVars, interp, clamp, collector, reconciler>>

\* `if not input_file.exists(): return`
Exact_NoFile ==
  /\ pc = "exact_main"
  /\ ~data_csv.exists
  /\ pc' = "returned"
  /\ UNCHANGED <<data_csv, data_backup, faults, exact, exactFrame>>

\* `if not test_single_query(): return`
Exact_ApiTestFailed ==
  /\ pc = "exact_main"
  /\ data_csv.exists
  /\ pc' = "returned"
  /\ UNCHANGED <<data_csv, data_backup, faults, exact, exactFrame>>

\* `missing_columns = [col for col in nondraft_columns if col not in
\* fieldnames]`
missing_columns(fieldnames) ==
  SelectSeq(NONDRAFT_QUERIES, LAMBDA col : col \notin Range(fieldnames))

\* the state of main after the read: data.tmp is open with its header, and
\* the first row's query begins if there is a row
ExactAfterRead(file) ==
  LET fieldnames == file.header
      n == Len(file.body)
  IN  [rows |-> file.body,
       total_rows |-> n,
       new_fieldnames |-> fieldnames \o missing_columns(fieldnames),
       tmp |-> [header |-> fieldnames \o missing_columns(fieldnames),
                body |-> <<>>, exists |-> TRUE],
       idx |-> 0,
       counts |-> EmptyDict,
       key_pos |-> IF n > 0 THEN 1 ELSE 0,
       attempt |-> 0]

\* Exact_BackupAndRead without shutil.copy2
Exact_BackupAndRead_NoBackup ==
  /\ pc = "exact_main"
  /\ data_csv.exists
  /\ exact' = ExactAfterRead(data_csv)
  /\ pc' = IF Len(data_csv.body) > 0 THEN "exact_query" ELSE "exact_replace"
  /\ UNCHANGED <<data_csv, data_backup, faults, exactFrame>>

\* shutil.copy2, csv.DictReader, new_fieldnames, temp_file.open("w"),
\* writer.writeheader()
Exact_BackupAndRead ==
  /\ pc = "exact_main"
  /\ data_csv.exists
  /\ data_backup' = data_csv
  /\ exact' = ExactAfterRead(data_csv)
  /\ pc' = IF Len(data_csv.body) > 0 THEN "exact_query" ELSE "exact_replace"
  /\ UNCHANGED <<data_csv, faults, exactFrame>>

\* `row = rows[idx].copy()`, row.update(counts), enforce_constraints(row)
ExactRow(row, new_counts) == enforce_constraints(DictUpdate(row, new_counts))

\* the state after one response: new_counts is counts after it, loop_over
\* says that the attempt loop of this metric has ended.  After the last
\* metric the row is updated, clamped and written to data.tmp.
ExactAfter(new_counts, loop_over) ==
  IF ~loop_over
    THEN /\ exact' = [exact EXCEPT !.attempt = @ + 1, !.counts = new_counts]
         /\ UNCHANGED pc
    ELSE IF exact.key_pos < Len(NONDRAFT_QUERIES)
      THEN /\ exact' = [exact EXCEPT !.key_pos = @ + 1, !.attempt = 0,
                                     !.counts = new_counts]
           /\ UNCHANGED pc
      ELSE LET row == ExactRow(exact.rows[exact.idx + 1], new_counts)
               last == exact.idx + 1 = exact.total_rows
           IN  /\ exact' =
                    [exact EXCEPT
                       !.tmp.body =
                          Append(@, WrittenRow(exact.new_fieldnames, row)),
                       !.idx = @ + 1,
                       !.counts = EmptyDict,
                       !.key_pos = IF last THEN 0 ELSE 1,
                       !.attempt = 0]
               /\ pc' = IF last THEN "exact_replace" ELSE "exact_query"

InExact ==
  /\ pc = "exact_query"
  /\ exact.key_pos \in 1..Len(NONDRAFT_QUERIES)
  /\ exact.attempt < MAX_ATTEMPTS

ExactLastAttempt == exact.attempt = MAX_ATTEMPTS - 1

\* `timestamp = parse_timestamp(row["timestamp"])` of the row in hand
ExactTimestamp == parse_timestamp(exact.rows[exact.idx + 1]["timestamp"])

\* status 200: counts[key] = r.json()["total_count"]; break
Exact_Response_200 ==
  /\ InExact
  /\ LET key == NONDRAFT_QUERIES[exact.key_pos]
     IN  ExactAfter(DictSet(exact.counts, key, ApiCount(key, ExactTimestamp)),
                    TRUE)
  /\ UNCHANGED <<data_csv, data_backup, faults, exactFrame>>

\* status 403: sleep; continue
Exact_Response_403 ==
  /\ InExact
  /\ faults < MaxFaults
  /\ faults' = faults + 1
  /\ ExactAfter(exact.counts, ExactLastAttempt)
  /\ UNCHANGED <<data_csv, data_backup, exactFrame>>

\* status 422: counts[key] = 0; break
Exact_Response_422 ==
  /\ InExact
  /\ faults < MaxFaults
  /\ faults' = faults + 1
  /\ ExactAfter(DictSet(exact.counts, NONDRAFT_QUERIES[exact.key_pos], 0),
                TRUE)
  /\ UNCHANGED <<data_csv, data_backup, exactFrame>>

\* requests.get, raise_for_status or r.json() raises: counts[key] = 0 on the
\* last attempt, nothing otherwise
Exact_Request_Exception ==
  /\ InExact
  /\ faults < MaxFaults
  /\ faults' = faults + 1
  /\ ExactAfter(IF ExactLastAttempt
                  THEN DictSet(exact.counts,
                               NONDRAFT_QUERIES[exact.key_pos], 0)
                  ELSE exact.counts,
                ExactLastAttempt)
  /\ UNCHANGED <<data_csv, data_backup, exactFrame>>

\* `temp_file.replace(input_file)`
Exact_Replace ==
  /\ pc = "exact_replace"
  /\ data_csv' = exact.tmp
  /\ exact' = [exact EXCEPT !.tmp = NoFile]
  /\ pc' = "exact_done"
  /\ UNCHANGED <<data_backup, faults, exactFrame>>

\* data.csv is absent, a table without the nondraft columns, or a table
\* that has them
InitExact ==
  /\ pc = "exact_main"
  /\ \/ data_csv = NoFile
     \/ \E n \in 0..MaxRows : data_csv = InputFile(n)
     \/ \E n \in 1..MaxCollectedRows : data_csv = CollectedFile(n)
  /\ MainIdle
  /\ ScriptsIdle
  /\ interp = NoCall
  /\ clamp = NoCall

NextExact ==
  \/ Exact_NoFile
  \/ Exact_ApiTestFailed
  \/ Exact_BackupAndRead
  \/ Exact_Response_200
  \/ Exact_Response_403
  \/ Exact_Response_422
  \/ Exact_Request_Exception
  \/ Exact_Replace

SpecExact == InitExact /\ [][NextExact]_vars

(***************************************************************************)
(* The three scripts that rewrite data.csv: the backfill of the root on    *)
(* the tables of at most MaxRows rows, the backfill of src/scripts, and    *)
(* the reconciler.                                                         *)
(***************************************************************************)
InitRewrite ==
  \/ /\ pc = "main"
     /\ \/ data_csv = NoFile
        \/ \E n \in 0..MaxRows : data_csv = InputFile(n)
     /\ MainIdle
     /\ interp = NoCall
     /\ clamp = NoCall
     /\ ScriptsIdle
  \/ InitExact
  \/ InitReconcile

NextRewrite ==
  \/ Main_NoFile
  \/ Main_ApiTestFailed
  \/ Main_BackupAndRead
  \/ Sampler_Last
  \/ Sample_Begin
  \/ Response_200
  \/ Response_403
  \/ Response_422
  \/ Request_Exception
  \/ Write_Open
  \/ Write_SampledRow
  \/ Write_InterpolatedRow
  \/ Write_InterpolationRaises
  \/ NextExact
  \/ NextReconcile

SpecRewrite == InitRewrite /\ [][NextRewrite]_vars

(***************************************************************************)
(* Claims.                                                                 *)
(***************************************************************************)
\* the sampler has built its list
SamplerDone == pc \in {"sample", "query", "write", "done", "crashed"}

StrictlyIncreasing(s) == \A j \in 1..(Len(s) - 1) : s[j] < s[j + 1]

\* C1: for every row count n >= 1 the sample index list contains 0 and
\* n - 1, is strictly increasing and contains no index >= n.
C1_SampleListEnds ==
  (SamplerDone /\ total_rows >= 1) =>
    /\ 0 \in Range(sample_indices)
    /\ (total_rows - 1) \in Range(sample_indices)
    /\ StrictlyIncreasing(sample_indices)
    /\ \A s \in Range(sample_indices) : s < total_rows

C1_Witness ==
  /\ pc = "sample"
  /\ total_rows = 2 * SAMPLE_STRIDE + 3
  /\ Len(sample_indices) = 4

\* C2: for every n >= 1 the sample index list is exactly the multiples of 20
\* below n in increasing order followed by n - 1, no index listed twice: n - 1
\* appears once when it is a multiple of 20, and the list is [0] for n = 1.
C2_SampleListExact ==
  (SamplerDone /\ total_rows >= 1) =>
    LET multiples == {m \in 0..(total_rows - 1) : m % 20 = 0}
    IN  /\ Range(sample_indices) = multiples \cup {total_rows - 1}
        /\ Len(sample_indices) = Cardinality(multiples \cup {total_rows - 1})
        /\ StrictlyIncreasing(sample_indices)
        /\ sample_indices[Len(sample_indices)] = total_rows - 1
        /\ (total_rows = 1 => sample_indices = <<0>>)

C2_Witness ==
  /\ pc = "sample"
  /\ total_rows = 2 * SAMPLE_STRIDE + 1
  /\ sample_indices = <<0, 20, 40>>

\* data.csv has been opened for writing by the backfill
WriteStarted == pc \in {"write", "done"} \/ (pc = "crashed" /\ total_rows > 0)

\* the rows written so far, by 0-based index
WrittenIndices == 0..(Len(data_csv.body) - 1)

\* C3: after a backfill run completes, every row of the table has a value
\* for every nondraft metric (no missing key, no empty cell), whatever the
\* outcomes of the queries.
C3_EveryRowHasEveryMetric ==
  pc = "done" =>
    /\ Len(data_csv.body) = total_rows
    /\ \A j \in WrittenIndices :
         \A key \in Range(NONDRAFT_QUERIES) : key \in DOMAIN data_csv.body[j + 1]

\* C4: for every sampled row index, the value written for each nondraft
\* metric is exactly the value the live query for that row gave (the count
\* the API answered, or the 0 of a failed query); a metric for which the
\* query gave nothing is written with no value.
C4_SampledRowsPassThrough ==
  WriteStarted =>
    \A j \in WrittenIndices :
      j \in Range(sample_indices) =>
        /\ j \in DOMAIN sample_data
        /\ \A key \in Range(NONDRAFT_QUERIES) :
             LET obtained == sample_data[j].counts
                 written  == data_csv.body[j + 1]
             IN  IF key \in DOMAIN obtained
                   THEN /\ key \in DOMAIN written
                        /\ written[key] = obtained[key]
                        /\ obtained[key] \in
                             {0, ApiCount(key, rows[j + 1]["timestamp"].secs)}
                   ELSE key \notin DOMAIN written

C4_Witness ==
  /\ pc = "done"
  /\ total_rows = SAMPLE_STRIDE + 5
  /\ faults = MaxFaults
  /\ "cursor_nondraft" \in DOMAIN data_csv.body[SAMPLE_STRIDE + 1]
  /\ data_csv.body[SAMPLE_STRIDE + 1]["cursor_nondraft"] =
       ApiCount("cursor_nondraft", SAMPLE_STRIDE \div 2)
  /\ data_csv.body[SAMPLE_STRIDE + 1]["codex_nondraft"] = 0

\* the rows the write loop has reached: written, or being written when the
\* run ended
ReachedIndices ==
  WrittenIndices \cup (IF pc = "crashed" /\ total_rows > 0 THEN {idx} ELSE {})

\* C5: for every non-sampled row index i in 0..n-1 a sampled index below i
\* and one above i exist, and the row is interpolated between the nearest
\* such pair; for a 25-row series the samples are {0, 20, 24}, rows 1..19
\* use samples 0 and 20 and rows 21..23 use samples 20 and 24.
C5_NearestBracketingSamples ==
  (SamplerDone /\ total_rows >= 1) =>
    LET samples == Range(sample_indices)
    IN  /\ \A i \in (0..(total_rows - 1)) \ samples :
             /\ \E s \in samples : s < i
             /\ \E s \in samples : s > i
        /\ WriteStarted =>
             \A i \in ReachedIndices \ samples :
               /\ i \in DOMAIN pairs
               /\ pairs[i][1] \in samples /\ pairs[i][1] < i
               /\ pairs[i][2] \in samples /\ pairs[i][2] > i
               /\ ~ \E s \in samples : pairs[i][1] < s /\ s < pairs[i][2]
               /\ i \in WrittenIndices =>
                    \A key \in Range(NONDRAFT_QUERIES) :
                      LET prev == sample_data[pairs[i][1]]
                          next == sample_data[pairs[i][2]]
                      IN  data_csv.body[i + 1][key] =
                            interpolate_linear(prev.counts[key], next.counts[key],
                                               prev.timestamp, next.timestamp,
                                               rows[i + 1]["timestamp"].secs)
        /\ DOMAIN pairs \subseteq (0..(total_rows - 1)) \ samples
        /\ total_rows = 25 =>
             /\ samples = {0, 20, 24}
             /\ \A i \in DOMAIN pairs :
                  /\ i \in 1..19 => pairs[i] = <<0, 20>>
                  /\ i \in 21..23 => pairs[i] = <<20, 24>>

C5_Witness ==
  /\ pc = "done"
  /\ total_rows = 25
  /\ DOMAIN pairs = (1..19) \cup (21..23)
  /\ pairs[19] = <<0, 20>>
  /\ pairs[21] = <<20, 24>>

Abs(x) == IF x >= 0 THEN x ELSE -x

\* the target is halfway between the two sample times
Halfway == 2 * interp.target_time = interp.start_time + interp.end_time

\* C6 as stated: interpolate_linear returns start_val when target_time
\* equals start_time, end_val when target_time equals end_time, and the
\* midpoint value when the target is halfway.
C6_EndpointsAndMidpoint ==
  interp.called =>
    /\ interp.target_time = interp.start_time => interp.result = interp.start_val
    /\ interp.target_time = interp.end_time => interp.result = interp.end_val
    /\ Halfway => 2 * interp.result = interp.start_val + interp.end_val

\* C6 as amended: interpolate_linear returns start_val when target_time
\* equals start_time; when start_time # end_time it returns end_val at
\* target_time = end_time and, at the halfway target, an integer nearest to
\* the midpoint (start_val + end_val) / 2, which is the midpoint itself when
\* start_val + end_val is even; with samples (10 at t=0s) and (20 at t=100s)
\* it returns 10 at t=0s, 15 at t=50s and 20 at t=100s.
C6_EndpointsAndRoundedMidpoint ==
  interp.called =>
    /\ interp.target_time = interp.start_time => interp.result = interp.start_val
    /\ (interp.start_time # interp.end_time
          /\ interp.target_time = interp.end_time) =>
         interp.result = interp.end_val
    /\ (interp.start_time # interp.end_time /\ Halfway) =>
         Abs(2 * interp.result - (interp.start_val + interp.end_val)) <= 1
    /\ (interp.start_val = 10 /\ interp.end_val = 20
          /\ interp.start_time = 0 /\ interp.end_time = 100) =>
         /\ interp.target_time = 0 => interp.result = 10
         /\ interp.target_time = 50 => interp.result = 15
         /\ interp.target_time = 100 => interp.result = 20

C6_Witness ==
  /\ interp.called
  /\ interp.start_val = 10 /\ interp.end_val = 20
  /\ interp.start_time = 0 /\ interp.end_time = 100
  /\ interp.target_time = 50
  /\ interp.result = 15

\* C7: when start_time = end_time, interpolate_linear returns start_val
\* exactly, for every target time and every pair of values (and divides by
\* nothing: the call is evaluated for every such input).
C7_DegenerateTimes ==
  (interp.called /\ interp.start_time = interp.end_time) =>
    interp.result = interp.start_val

C7_Witness ==
  /\ interp.called
  /\ interp.start_time = interp.end_time
  /\ interp.target_time # interp.start_time
  /\ interp.start_val # interp.end_val
  /\ interp.result = interp.start_val

\* C8: for start_time # end_time the result is an integer within 1/2 of the
\* exact linear value start_val + (end_val - start_val) * (target_time -
\* start_time) / (end_time - start_time).  With d = end_time - start_time
\* the exact value is e / d, and |result - e / d| <= 1/2 is
\* |2 * result * d - 2 * e| <= |d|.
C8_NearestInteger ==
  (interp.called /\ interp.start_time # interp.end_time) =>
    LET d == interp.end_time - interp.start_time
        e == interp.start_val * d
               + (interp.end_val - interp.start_val)
                   * (interp.target_time - interp.start_time)
    IN  /\ interp.result \in Int
        /\ Abs(2 * interp.result * d - 2 * e) <= Abs(d)

\* the exact value is no integer and lies above the half: the result is the
\* integer above it
C8_Witness ==
  /\ interp.called
  /\ interp.start_val = 0 /\ interp.end_val = 2
  /\ interp.start_time = 0 /\ interp.end_time = 3
  /\ interp.target_time = 1
  /\ interp.result = 1

\* C9: for every agent whose total, merged and nondraft keys are all in the
\* row, enforce_constraints sets nondraft to max(merged, min(nondraft,
\* total)); (total=100, merged=80, nondraft=50) gives 80 and (total=100,
\* merged=20, nondraft=150) gives 100.
C9_ClampFormula ==
  clamp.called =>
    \A a \in 1..Len(agents) :
      LET tk == total_key(agents[a])
          mk == merged_key(agents[a])
          nk == nondraft_key(agents[a])
          in == clamp.input
      IN  (tk \in DOMAIN in /\ mk \in DOMAIN in /\ nk \in DOMAIN in) =>
            /\ nk \in DOMAIN clamp.returned
            /\ LET low == IF in[nk] <= in[tk] THEN in[nk] ELSE in[tk]
               IN  clamp.returned[nk] = IF in[mk] >= low THEN in[mk] ELSE low
            /\ (in[tk] = 100 /\ in[mk] = 80 /\ in[nk] = 50) =>
                 clamp.returned[nk] = 80
            /\ (in[tk] = 100 /\ in[mk] = 20 /\ in[nk] = 150) =>
                 clamp.returned[nk] = 100

C9_Witness ==
  /\ clamp.called
  /\ DOMAIN clamp.input = Range(OldFieldnames) \cup Range(NONDRAFT_QUERIES)
  /\ clamp.input["devin_total"] = 100
  /\ clamp.input["devin_merged"] = 80
  /\ clamp.input["devin_nondraft"] = 50
  /\ clamp.returned["devin_nondraft"] = 80
  /\ clamp.returned["codex_nondraft"] = 4

\* C10: after enforce_constraints has been applied to a row, every agent's
\* triple satisfies merged <= nondraft <= total, for all non-negative values
\* of total, merged and nondraft.
C10_TripleOrdered ==
  clamp.called =>
    \A a \in 1..Len(agents) :
      LET tk == total_key(agents[a])
          mk == merged_key(agents[a])
          nk == nondraft_key(agents[a])
          out == clamp.returned
      IN  (tk \in DOMAIN out /\ mk \in DOMAIN out /\ nk \in DOMAIN out) =>
            /\ out[mk] <= out[nk]
            /\ out[nk] <= out[tk]


\* every agent whose three keys are in the row has merged <= nondraft <= total
TriplesOrdered(row) ==
  \A a \in 1..Len(agents) :
    HasTriple(row, agents[a]) =>
      /\ row[merged_key(agents[a])] <= row[nondraft_key(agents[a])]
      /\ row[nondraft_key(agents[a])] <= row[total_key(agents[a])]

\* C11: enforce_constraints applied to the row it returned returns that row
\* again (twice is the same as once), and applied to a row whose triples
\* all satisfy merged <= nondraft <= total it returns the row as given.
C11_Idempotent ==
  /\ clamp.called_again => clamp.again = clamp.returned
  /\ (clamp.called /\ TriplesOrdered(clamp.input)) =>
       clamp.returned = clamp.input

\* the second call has been made on a row that the first call had changed
C11_Witness ==
  /\ clamp.called_again
  /\ clamp.returned # clamp.input
  /\ DOMAIN clamp.input = Range(OldFieldnames) \cup Range(NONDRAFT_QUERIES)
  /\ clamp.input["devin_nondraft"] = 150
  /\ clamp.input["devin_total"] = 100
  /\ clamp.again["devin_nondraft"] = 100

\* C12 as stated: the row object passed by the caller holds the same values
\* after the call as before it.
C12_ArgumentUnchanged == clamp.called => clamp.row = clamp.input

\* C12: enforce_constraints assigns on the row object it is given and
\* returns that object: after the call the caller's row object holds the
\* values returned, and it differs from the row as it was at the call in
\* nothing but nondraft entries.
C12_ArgumentHoldsReturnedValues ==
  clamp.called =>
    /\ clamp.row = clamp.returned
    /\ DOMAIN clamp.row = DOMAIN clamp.input
    /\ \A k \in DOMAIN clamp.input :
         clamp.row[k] # clamp.input[k] => k \in Range(NONDRAFT_QUERIES)

\* the call has changed the caller's row object
C12_Witness ==
  /\ clamp.called
  /\ ~clamp.called_again
  /\ clamp.row # clamp.input
  /\ DOMAIN clamp.input = Range(OldFieldnames) \cup Range(NONDRAFT_QUERIES)
  /\ clamp.input["codex_nondraft"] = 0
  /\ clamp.input["codex_merged"] = 2
  /\ clamp.row["codex_nondraft"] = 2

\* the reconciler has read the table
ReconcilerHasRead ==
  pc \in {"reconcile_fetch", "reconcile_write", "reconciled"}

\* the fetch loop of the reconciler is over
ReconcilePassOver ==
  \/ pc \in {"reconcile_write", "reconciled"}
  \/ pc = "reconcile_fetch" /\ reconciler.i = Len(reconciler.codegen_rows)

\* the table as it was before the reconciler ran
PriorTable == reconciler.backup

\* C13: in the file the reconciler has rewritten, the header, the number
\* of rows and their order are those of the prior table, and a cell that
\* differs from the prior table is the codegen_merged cell of a row whose
\* codegen_total is above 0.
C13_OnlyCodegenMergedRewritten ==
  pc = "reconciled" =>
    /\ data_csv.exists
    /\ data_csv.header = PriorTable.header
    /\ Len(data_csv.body) = Len(PriorTable.body)
    /\ \A j \in 1..Len(PriorTable.body) :
         /\ DOMAIN data_csv.body[j] = DOMAIN PriorTable.body[j]
         /\ \A k \in DOMAIN PriorTable.body[j] :
              data_csv.body[j][k] # PriorTable.body[j][k] =>
                /\ k = "codegen_merged"
                /\ PriorTable.body[j]["codegen_total"] > 0

\* a table of three rows, the first without codegen data, has been
\* rewritten with the codegen_merged cell of its last row changed
C13_Witness ==
  /\ pc = "reconciled"
  /\ Len(data_csv.body) = 3
  /\ PriorTable.body[1]["codegen_total"] = 0
  /\ PriorTable.body[3]["codegen_total"] > 0
  /\ data_csv.body[3]["codegen_merged"] # PriorTable.body[3]["codegen_merged"]
  /\ data_csv.body[1] = PriorTable.body[1]

\* the rows (row_idx) whose fetched value differs from the old value
DifferingRows ==
  {r \in DOMAIN reconciler.fetched :
     reconciler.fetched[r] # PriorTable.body[r + 1]["codegen_merged"]}

\* C14: the diff list has exactly one entry for each row whose fetched
\* value differs from its old value and none for any other row, and each
\* entry records the old value, the new value and difference = new - old.
C14_DiffListExact ==
  ReconcilerHasRead =>
    LET diffs == reconciler.differences
    IN  /\ \A r \in DifferingRows :
             Cardinality({e \in 1..Len(diffs) : diffs[e].row = r + 2}) = 1
        /\ \A e \in 1..Len(diffs) :
             LET r == diffs[e].row - 2
             IN  /\ r \in DifferingRows
                 /\ diffs[e].old_merged = PriorTable.body[r + 1]["codegen_merged"]
                 /\ diffs[e].new_merged = reconciler.fetched[r]
                 /\ diffs[e].difference =
                      diffs[e].new_merged - diffs[e].old_merged
                 /\ diffs[e].timestamp = PriorTable.body[r + 1]["timestamp"]

\* a pass is over in which one row was fetched with its old value and
\* another with a different one
C14_Witness ==
  /\ ReconcilePassOver
  /\ Cardinality(DOMAIN reconciler.fetched) = 2
  /\ Len(reconciler.differences) = 1
  /\ reconciler.differences[1].difference = 1

\* C15: a row whose fetch failed (get_merged_count returned None) keeps its
\* codegen_merged value and has no diff entry; the loop goes on to the
\* remaining rows (at its end every row with codegen data has been fetched
\* or skipped, nothing was raised) and the table is written with the row
\* as it was.
C15_FailedFetchSkipsRow ==
  /\ \A r \in reconciler.skipped :
       /\ ReconcilerHasRead
       /\ reconciler.rows[r + 1] = PriorTable.body[r + 1]
       /\ \A e \in 1..Len(reconciler.differences) :
            reconciler.differences[e].row # r + 2
       /\ pc = "reconciled" => data_csv.body[r + 1] = PriorTable.body[r + 1]
  /\ ReconcilePassOver =>
       Range(reconciler.codegen_rows) =
         DOMAIN reconciler.fetched \cup reconciler.skipped

\* the table has been written after the fetch of row 1 failed and row 2
\* was fetched with a new value
C15_Witness ==
  /\ pc = "reconciled"
  /\ 1 \in reconciler.skipped
  /\ 2 \in DOMAIN reconciler.fetched
  /\ data_csv.body[2]["codegen_merged"] = 0
  /\ data_csv.body[3]["codegen_merged"] = 2
  /\ Len(reconciler.differences) = 1

\* the query the backfill is making (a metric at the timestamp of a sample)
CurrentQuery == <<sample_pos, NONDRAFT_QUERIES[key_pos]>>

\* the backfill is in the attempt loop of the query of query_log
QueryInProgress ==
  /\ pc = "query"
  /\ key_pos \in 1..Len(NONDRAFT_QUERIES)
  /\ query_log.query = CurrentQuery

\* the collector is in the attempt loop of the metric of collector.log
CollectInProgress ==
  /\ pc = "collect"
  /\ collector.key_pos \in 1..Len(Q)
  /\ collector.log.query = <<0, Q[collector.key_pos]>>

\* C16 as stated: in every script a query is attempted at most 3 times,
\* also when every response is a 403: no query of the backfill, of the
\* collector or of the reconciler has had more than 3 responses.
C16_AtMostThreeAttempts ==
  /\ Len(query_log.responses) <= MAX_ATTEMPTS
  /\ Len(collector.log.responses) <= MAX_ATTEMPTS
  /\ reconciler.requests <= MAX_ATTEMPTS

\* C17 as stated: a query that has had only rate-limit (403) responses,
\* fewer than the cap, still has all 3 attempts left for generic failures.
C17_RateLimitKeepsQuota ==
  /\ ( /\ QueryInProgress
       /\ \A p \in 1..Len(query_log.responses) : query_log.responses[p] = "403" )
       => MAX_ATTEMPTS - attempt = MAX_ATTEMPTS
  /\ ( /\ CollectInProgress
       /\ \A p \in 1..Len(collector.log.responses) :
            collector.log.responses[p] = "403" )
       => MAX_ATTEMPTS - collector.attempt = MAX_ATTEMPTS

\* C17: a rate-limit (403) response consumes one of the 3 attempts of its
\* query, the same attempts that generic failures use: in the attempt loop
\* of a query the attempts used are the responses it has had, the 403
\* responses included, so after k rate-limit responses 3 - k attempts are
\* left for any kind of response.
C17_RateLimitConsumesAttempt ==
  /\ QueryInProgress =>
       /\ attempt = Len(query_log.responses)
       /\ attempt < MAX_ATTEMPTS
  /\ CollectInProgress =>
       /\ collector.attempt = Len(collector.log.responses)
       /\ collector.attempt < MAX_ATTEMPTS

\* a query of the backfill has one attempt left after two 403 responses,
\* and so has a metric of the collector
C17_Witness ==
  \/ /\ QueryInProgress
     /\ query_log.responses = <<"403", "403">>
     /\ attempt = 2
  \/ /\ CollectInProgress
     /\ collector.log.responses = <<"403", "403">>
     /\ collector.attempt = 2

\* counts as get_nondraft_counts_at_time has them, or returned them, for
\* the sample of query_log
CountsOfLoggedSample ==
  IF pc = "query" /\ query_log.query[1] = sample_pos
    THEN counts
    ELSE sample_data[sample_indices[query_log.query[1] + 1]].counts

\* C18: a 422 response is the last response of its query: the metric is 0
\* and the attempt loop of the metric is over, in the backfill and in the
\* collector.
C18_ValidationNeverRetried ==
  /\ \A p \in 1..Len(query_log.responses) :
       query_log.responses[p] = "422" =>
         /\ p = Len(query_log.responses)
         /\ ~QueryInProgress
         /\ query_log.query[2] \in DOMAIN CountsOfLoggedSample
         /\ CountsOfLoggedSample[query_log.query[2]] = 0
  /\ \A p \in 1..Len(collector.log.responses) :
       collector.log.responses[p] = "422" =>
         /\ p = Len(collector.log.responses)
         /\ ~CollectInProgress
         /\ collector.log.query[2] \in DOMAIN collector.cnt
         /\ collector.cnt[collector.log.query[2]] = 0

\* a 422 came after a 403 for a metric of the backfill, which has gone on
\* to the next metric with one attempt unused
C18_Witness ==
  /\ pc = "query"
  /\ query_log.responses = <<"403", "422">>
  /\ query_log.query = <<0, "codex_nondraft">>
  /\ key_pos = 3
  /\ attempt = 0
  /\ counts["codex_nondraft"] = 0
  /\ counts["copilot_nondraft"] > 0

\* a step of the backfill in which a request raises an exception
BackfillExceptionStep ==
  /\ query_log' # query_log
  /\ Len(query_log'.responses) > 0
  /\ query_log'.responses[Len(query_log'.responses)] = "exception"

\* a step of the collector in which a request raises an exception
CollectExceptionStep ==
  /\ collector'.log # collector.log
  /\ Len(collector'.log.responses) > 0
  /\ collector'.log.responses[Len(collector'.log.responses)] = "exception"

\* what a step with an exception does in the backfill
BackfillExceptionHandled ==
  LET key    == NONDRAFT_QUERIES[key_pos]
      result == IF pc' = "query" THEN counts'
                ELSE sample_data'[sample_indices[sample_pos + 1]].counts
  IN  /\ pc' \in {"query", "sample"}
      /\ IF attempt < MAX_ATTEMPTS - 1
           THEN /\ pc' = "query"
                /\ key_pos' = key_pos
                /\ attempt' = attempt + 1
                /\ key \notin DOMAIN result
           ELSE /\ key \in DOMAIN result
                /\ result[key] = 0
                /\ \/ pc' = "query" /\ key_pos' = key_pos + 1 /\ attempt' = 0
                   \/ pc' = "sample" /\ key_pos = Len(NONDRAFT_QUERIES)
      /\ \A k \in Range(NONDRAFT_QUERIES) \ {key} :
           /\ k \in DOMAIN result <=> k \in DOMAIN counts
           /\ k \in DOMAIN counts => result[k] = counts[k]
      /\ sample_pos' = IF pc' = "sample" THEN sample_pos + 1 ELSE sample_pos
      /\ \A s \in DOMAIN sample_data : sample_data'[s] = sample_data[s]

\* what a step with an exception does in the collector
CollectExceptionHandled ==
  LET key == Q[collector.key_pos]
  IN  /\ pc' \in {"collect", "collect_save"}
      /\ IF collector.attempt < MAX_ATTEMPTS - 1
           THEN /\ pc' = "collect"
                /\ collector'.key_pos = collector.key_pos
                /\ collector'.attempt = collector.attempt + 1
                /\ key \notin DOMAIN collector'.cnt
           ELSE /\ key \in DOMAIN collector'.cnt
                /\ collector'.cnt[key] = 0
                /\ collector'.key_pos = collector.key_pos + 1
                /\ collector'.attempt = 0
      /\ \A k \in Range(Q) \ {key} :
           /\ k \in DOMAIN collector'.cnt <=> k \in DOMAIN collector.cnt
           /\ k \in DOMAIN collector.cnt => collector'.cnt[k] = collector.cnt[k]

\* C19: a request that raises an exception is followed by another request
\* for the same metric while attempts are left; at the last attempt the
\* metric is set to 0 and the run goes on with the next metric (or with
\* what follows the last metric).  The run is not aborted, and the values
\* of the other metrics are the same after the step as before it.
C19_TransientFailureContained ==
  [][ /\ BackfillExceptionStep => BackfillExceptionHandled
      /\ CollectExceptionStep => CollectExceptionHandled ]_vars

\* the third request for codex_nondraft has raised like the two before: the
\* metric is 0, copilot_nondraft has the value the API gave and the backfill
\* is at the next metric
C19_Witness ==
  /\ pc = "query"
  /\ query_log.query = <<0, "codex_nondraft">>
  /\ query_log.responses = <<"exception", "exception", "exception">>
  /\ key_pos = 3
  /\ counts["codex_nondraft"] = 0
  /\ counts["copilot_nondraft"] = ApiCount("copilot_nondraft", timestamp)

\* the table the backfill is writing, complete
NewTableComplete ==
  /\ data_csv.exists
  /\ data_csv.header = new_fieldnames
  /\ Len(data_csv.body) = total_rows

\* C20 as stated: at any point of a run that rewrites data.csv (a crash at
\* that point leaves the file as it is then), data.csv holds the complete
\* prior table or the complete new table.
C20_DataCsvNeverPartial ==
  data_backup.exists => (data_csv = data_backup \/ NewTableComplete)

\* the keys of an agent
AgentKeys(agent) == {total_key(agent), merged_key(agent), nondraft_key(agent)}

\* C27: enforce_constraints returns a row with the keys of the row given,
\* in which every entry other than the nondraft entries has the value it
\* had, and every entry of an agent that lacks one of its three keys has
\* the value it had.
C27_OnlyNondraftOfFullTriples ==
  clamp.called =>
    /\ DOMAIN clamp.returned = DOMAIN clamp.input
    /\ \A k \in DOMAIN clamp.input \ Range(NONDRAFT_QUERIES) :
         clamp.returned[k] = clamp.input[k]
    /\ \A a \in 1..Len(agents) :
         ~HasTriple(clamp.input, agents[a]) =>
           \A k \in AgentKeys(agents[a]) \cap DOMAIN clamp.input :
             clamp.returned[k] = clamp.input[k]

\* devin lacks its total and keeps a nondraft above its merged count, while
\* codex, with its three keys, has been clamped
C27_Witness ==
  /\ clamp.called
  /\ "devin_total" \notin DOMAIN clamp.input
  /\ {"devin_nondraft", "devin_merged", "codex_nondraft"} \subseteq DOMAIN clamp.input
  /\ clamp.input["devin_nondraft"] = 150
  /\ clamp.returned["devin_nondraft"] = 150
  /\ clamp.input["codex_nondraft"] = 6
  /\ clamp.returned["codex_nondraft"] = 4

\* C28 as stated: a reconciliation run that has read a table in which no
\* row has codegen_total > 0 is not ended by an error (it goes on to write
\* the table back and to report an empty diff list).
C28_NoCodegenRowsCompletes ==
  (reconciler.backup.exists /\ reconciler.codegen_rows = <<>>) =>
    /\ pc # "crashed"
    /\ reconciler.differences = <<>>
    /\ reconciler.requests = 0

\* C26: when start_time <= target_time <= end_time the value returned by
\* interpolate_linear lies between start_val and end_val, and when moreover
\* start_val <= end_val the value returned for any later target time up to
\* end_time is not below it.
C26_BoundedAndMonotone ==
  (interp.called /\ interp.start_time <= interp.target_time
                 /\ interp.target_time <= interp.end_time) =>
    /\ Min2(interp.start_val, interp.end_val) <= interp.result
    /\ interp.result <= Max2(interp.start_val, interp.end_val)
    /\ interp.start_val <= interp.end_val =>
         \A later \in InterpTimes :
           (interp.target_time <= later /\ later <= interp.end_time) =>
             interp.result <=
               interpolate_linear(interp.start_val, interp.end_val,
                                  interp.start_time, interp.end_time, later)

\* 1 at 0 s and 2 at 4 s: the value at 2 s, halfway, is 1.5 rounded to 2
C26_Witness ==
  /\ interp.called
  /\ interp.start_val = 1
  /\ interp.end_val = 2
  /\ interp.start_time = 0
  /\ interp.end_time = 4
  /\ interp.target_time = 2
  /\ interp.result = 2

\* the row the collector has appended
AppendedRow == data_csv.body[Len(data_csv.body)]

\* C24: the row appended is aligned with the 16 columns of the header the
\* collector writes: under each metric's column is that metric's value,
\* which is the count the query gave, or 0 when the loop of the metric left
\* no value; the metrics of Q are the columns other than the timestamp.
C24_RowMatchesHeader ==
  [][ (pc = "collect_save" /\ pc' = "collected") =>
        /\ Len(CollectorFieldnames) = 16
        /\ RowKeys = CollectorFieldnames
        /\ Range(Q) = Range(CollectorFieldnames) \ {"timestamp"}
        /\ Cardinality(Range(Q)) = 15
        /\ ~data_csv.exists => data_csv'.header = CollectorFieldnames
        /\ DOMAIN AppendedRow' = Range(CollectorFieldnames)
        /\ \A k \in Range(Q) :
             AppendedRow'[k] = IF k \in DOMAIN collector.cnt
                                 THEN collector.cnt[k]
                                 ELSE 0 ]_vars

\* a new file has been written in which codegen_total is 0 (its three
\* requests were rate limited) next to the count of codegen_merged
C24_Witness ==
  /\ pc = "collected"
  /\ Len(data_csv.body) = 1
  /\ data_csv.header = CollectorFieldnames
  /\ collector.log.responses = <<"200">>
  /\ AppendedRow["codegen_total"] = 0
  /\ AppendedRow["codegen_merged"] = CollectCount("codegen_merged")
  /\ AppendedRow["copilot_total"] = CollectCount("copilot_total")

\* C25: the step of a collector run that changes data.csv appends one row
\* after the rows that were there, which are unchanged; the header is
\* written when there was no file and is the header that was there
\* otherwise; no other step of the run changes the file.
C25_AppendsOneRow ==
  [][ data_csv' # data_csv =>
        /\ pc = "collect_save"
        /\ data_csv'.exists
        /\ Len(data_csv'.body) = Len(data_csv.body) + 1
        /\ \A j \in 1..Len(data_csv.body) : data_csv'.body[j] = data_csv.body[j]
        /\ data_csv'.header = IF data_csv.exists THEN data_csv.header
                                                 ELSE CollectorFieldnames ]_vars

\* a row has been appended to a table of one row
C25_Witness ==
  /\ pc = "collected"
  /\ Len(data_csv.body) = 2
  /\ data_csv.body[1] = CollectedRow(0)
  /\ data_csv.body[2]["timestamp"] = [secs |-> 1, dash |-> "u2011"]
  /\ data_csv.body[2]["codex_nondraft"] = CollectCount("codex_nondraft")

\* the backup file of the script that is running: data_backup.csv of the
\* backfills, the timestamped copy of the reconciler
BackupOfRun ==
  IF pc \in {"reconcile_fetch", "reconcile_write"}
    THEN reconciler.backup
    ELSE data_backup

\* data.csv is as the run found it: the next write is the first
BeforeFirstWrite == pc \in {"sample", "exact_replace", "reconcile_fetch"}

\* C21: in the two backfill scripts and the reconciler, whenever a step
\* truncates, writes or replaces data.csv the backup file of the run exists,
\* and at the first such step of a run the backup is a full copy of the
\* data.csv of that moment.
C21_BackupBeforeFirstWrite ==
  [][data_csv' # data_csv =>
       /\ BackupOfRun.exists
       /\ BeforeFirstWrite => BackupOfRun = data_csv]_vars

\* the backfill of src/scripts has replaced data.csv by a different table,
\* and data_backup.csv holds the table it found
C21_Witness ==
  /\ pc = "exact_done"
  /\ data_backup = InputFile(2)
  /\ data_csv.exists
  /\ data_csv # data_backup

\* the rows a backfill run has written so far: those of data.csv (written in
\* place by the backfill of the root, put in place by the other) and those
\* of data.tmp
BackfillWrittenRows == Range(data_csv.body) \cup Range(exact.tmp.body)

BackfillRunEnded ==
  /\ pc \in {"done", "crashed", "exact_done"}
  /\ data_backup.exists

\* C23 as stated: when a backfill run has ended, whatever the query outcomes
\* were, data.csv has the rows it had, in their order, and every row has
\* its timestamp and its total and merged cells as they were.
C23_OnlyNondraftColumnsChange ==
  BackfillRunEnded =>
    /\ Len(data_csv.body) = Len(data_backup.body)
    /\ \A j \in 1..Len(data_backup.body) :
         \A k \in DOMAIN data_backup.body[j] \ Range(NONDRAFT_QUERIES) :
           /\ k \in DOMAIN data_csv.body[j]
           /\ data_csv.body[j][k] = data_backup.body[j][k]
====
